---------------------------- MODULE Spec2Model ----------------------------
(***************************************************************************)
(* Model of src/src/etl.py: the SAP OData extraction run (run_etl), its    *)
(* partition discovery (fetch_distinct_access_codes), the per-partition    *)
(* extractor with field negotiation and paging                            *)
(* (fetch_rows_for_access_code) and the payload helpers.                   *)
(*                                                                         *)
(* Encoding of Python values:                                              *)
(*   str              a sequence (text is a sequence of code points, a     *)
(*                    URL or an error body a sequence of lexical tokens)   *)
(*   Optional[x]      None is {}, a present value v is {v}                 *)
(*   dict             a function whose DOMAIN is the set of keys           *)
(*   list             a sequence                                           *)
(* One action is one HTTP exchange together with all the code that runs    *)
(* until the next outbound request (or the end of the run); the server's   *)
(* response is the action's input.                                         *)
(***************************************************************************)
EXTENDS Integers, Sequences, FiniteSets, TLC

\* ------------------------------------------------------------------ bounds
MaxDiscRows == 3     \* rows in the discovery response
MaxPages    == 3     \* longest continuation chain the server serves
NumFields   == 3     \* how many of the configured fields the model keeps
PageRows    == 1     \* rows the server puts on each page of a partition

\* --------------------------------------------------------------- constants
top_per_page == 5000
codes_top    == 10000

QUOTE == 39          \* the character '

None == {}
Some(v) == {v}
TheOne(o) == CHOOSE v \in o : TRUE

\* The configured field list, first to last; a field name is a one-token str.
AllSelectFields ==
  <<
     <<"FCABSENCE_TIME">>, <<"UCABSENCE_TIME">>, <<"C0DATEFROM">>,
     <<"C0DATETO">>, <<"CEMPLOYEE_UUID">>, <<"TEMPLOYEE_UUID">>,
     <<"RCHEADCOUNT">>, <<"FCHEADCOUNT">>, <<"UCHEADCOUNT">>,
     <<"FCPLANNED_TIME">>, <<"UCPLANNED_TIME">>, <<"CPROJECT_UUID">>,
     <<"TPROJECT_UUID">>, <<"FCRECORDED_TIME">>, <<"UCRECORDED_TIME">>,
     <<"RCCOMPLIANCE_RATE">>, <<"FCCOMPLIANCE_RATE">>, <<"UCCOMPLIANCE_RATE">>,
     <<"KCABSENCE_TIME">>, <<"KCHEADCOUNT">>, <<"KCPLANNED_TIME">>,
     <<"KCRECORDED_TIME">>, <<"KCCOMPLIANCE_RATE">>, <<"C0CHAR_STRUCTURE">>
  >>

SELECT_FIELDS == SubSeq(AllSelectFields, 1, NumFields)

SAP_CODES_QUERY == "RPZDA829C3EFFC649C58434CCQueryResults"
SAP_MAIN_QUERY  == "RPZDA829C3EFFC649C58434CCQueryResults"

_entity_url(entity) == << "entity", entity >>

\* ------------------------------------------------------------ list helpers
Range(s) == { s[k] : k \in 1..Len(s) }

RECURSIVE SeqsUpTo(_, _)
SeqsUpTo(S, n) ==
  IF n = 0 THEN { <<>> }
  ELSE LET shorter == SeqsUpTo(S, n - 1)
       IN  shorter \cup { Append(s, x) : s \in { t \in shorter : Len(t) = n - 1 }, x \in S }

\* str < str in Python: code point by code point, a proper prefix is smaller
RECURSIVE StrLess(_, _)
StrLess(a, b) ==
  IF b = <<>> THEN FALSE
  ELSE IF a = <<>> THEN TRUE
  ELSE IF Head(a) # Head(b) THEN Head(a) < Head(b)
  ELSE StrLess(Tail(a), Tail(b))

\* sorted(S) for a set of strings
RECURSIVE Sorted(_)
Sorted(S) ==
  IF S = {} THEN <<>>
  ELSE LET least == CHOOSE x \in S : \A y \in S \ {x} : StrLess(x, y)
       IN  <<least>> \o Sorted(S \ {least})

\* list.remove(x): drops the first occurrence of x
RemoveFirst(s, x) ==
  LET k == CHOOSE j \in 1..Len(s) : s[j] = x /\ \A h \in 1..(j - 1) : s[h] # x
  IN  SubSeq(s, 1, k - 1) \o SubSeq(s, k + 1, Len(s))

\* ",".join(fields)
RECURSIVE Join(_)
Join(fields) ==
  IF Len(fields) = 0 THEN <<>>
  ELSE IF Len(fields) = 1 THEN fields[1]
  ELSE fields[1] \o << "," >> \o Join(Tail(fields))

\* the value is put between the quotes as it is
NoEscape(code) == code

\* str.replace("'", "''")
RECURSIVE EscapeQuotes(_)
EscapeQuotes(code) ==
  IF code = <<>> THEN <<>>
  ELSE (IF Head(code) = QUOTE THEN << QUOTE, QUOTE >> ELSE << Head(code) >>)
       \o EscapeQuotes(Tail(code))

\* dict.get(key, default)
Get(d, key, default) == IF key \in DOMAIN d THEN d[key] ELSE default

\* truthiness of an Optional[str]: None and "" are falsy
Truthy(o) == o # None /\ o # Some(<<>>)

\* the second operand is looked at first
OrSecondFirst(a, b) == IF Truthy(b) THEN b ELSE a

\* a or b
PyOr(a, b) == IF Truthy(a) THEN a ELSE b

\* --------------------------------------------------------- payload helpers
\* the modern keys are looked at first, the legacy envelope only without them
ModernFirst(data) ==
  IF "value" \in DOMAIN data \/ "d" \notin DOMAIN data
  THEN << Get(data, "value", <<>>),
          PyOr(Get(data, "@odata.nextLink", None), Get(data, "odata.nextLink", None)) >>
  ELSE << Get(data["d"], "results", <<>>), Get(data["d"], "__next", None) >>

\* l.91-97
_extract_results_and_next(data) ==
  IF "d" \in DOMAIN data
  THEN << Get(data["d"], "results", <<>>), Get(data["d"], "__next", None) >>
  ELSE << Get(data, "value", <<>>),
          PyOr(Get(data, "@odata.nextLink", None), Get(data, "odata.nextLink", None)) >>

\* An error body is a sequence of lexical tokens: the word "segment", a
\* whitespace run " ", the quote "'", and any other word.
IsSpace(tok) == tok = " "

\* index of the first quote token after position q, 0 when there is none
FirstQuoteAfter(text, q) ==
  IF \E c \in (q + 1)..Len(text) : text[c] = "'"
  THEN CHOOSE c \in (q + 1)..Len(text) :
         text[c] = "'" /\ \A h \in (q + 1)..(c - 1) : text[h] # "'"
  ELSE 0

\* does  segment\s+'([^']+)'  match with "segment" at position s ?
SegmentMatchAt(text, s) ==
  /\ text[s] = "segment"
  /\ \E q \in (s + 2)..Len(text) :
       /\ text[q] = "'"
       /\ \A h \in (s + 1)..(q - 1) : IsSpace(text[h])
       /\ FirstQuoteAfter(text, q) > q + 1

\* re.search(r"segment\s+'([^']+)'", resp_text): group 1 of the leftmost match
_extract_missing_segment(resp_text) ==
  IF \E s \in 1..Len(resp_text) : SegmentMatchAt(resp_text, s)
  THEN LET s == CHOOSE t \in 1..Len(resp_text) :
                  /\ SegmentMatchAt(resp_text, t)
                  /\ \A h \in 1..(t - 1) : ~SegmentMatchAt(resp_text, h)
           q == CHOOSE c \in (s + 2)..Len(resp_text) :
                  /\ resp_text[c] = "'"
                  /\ \A h \in (s + 1)..(c - 1) : IsSpace(resp_text[h])
       IN  Some(SubSeq(resp_text, q + 1, FirstQuoteAfter(resp_text, q) - 1))
  ELSE None

\* -------------------------------------------------------------- the server
\* requests.Response: kind "http" carries status_code, text and the decoded
\* body (None when the body is not JSON); kind "neterr" is a timeout or a
\* connection failure raised by SESSION.get.
NetErr == [kind |-> "neterr", status_code |-> 0, text |-> <<>>, json |-> None]
Http(status, text, json) ==
  [kind |-> "http", status_code |-> status, text |-> text, json |-> json]

\* Response.ok: the status is below 400
Ok(resp) == resp.status_code < 400

Shapes == { "legacy", "modern", "bare" }

\* a page of rows and an optional continuation token in one envelope shape
Payload(shape, rows, tok) ==
  CASE shape = "legacy" ->
         IF tok = None THEN [d |-> [results |-> rows]]
         ELSE [d |-> [results |-> rows, __next |-> tok]]
    [] shape = "modern" ->
         IF tok = None THEN ("value" :> rows)
         ELSE ("value" :> rows) @@ ("@odata.nextLink" :> tok)
    [] OTHER ->
         IF tok = None THEN ("value" :> rows)
         ELSE ("value" :> rows) @@ ("odata.nextLink" :> tok)

\* "Resource not found for the segment 'FIELD'."
SegmentMsg(field) ==
  << "Resource", " ", "not", " ", "found", " ", "for", " ", "the", " ",
     "segment", " ", "'" >> \o field \o << "'", "." >>

\* error bodies the server may send
ErrorBodies ==
  { SegmentMsg(f) : f \in Range(SELECT_FIELDS) \cup { <<"NO_SUCH_FIELD">> } }
    \cup { << "Not", " ", "found" >>,
           << "segment", "'", "FCABSENCE_TIME", "'" >>,
           << "segment", " ", "'", "'" >> }

ErrorStatuses == { 404, 500 }

\* the decoded body of an error response: not JSON, or a JSON error document
ErrorJson == { None, Some("error" :> << "message" >>) }

\* partition values the back end may hold: "A", "'A''" and "B"
CodeVals == { <<65>>, << QUOTE, 65, QUOTE, QUOTE >>, <<66>> }

\* one row of the discovery response: the key absent, null, "" or a value
DiscRows ==
  { [TEMPLOYEE_UUID |-> Some(<<69>>)] } \cup { [C0CHAR_STRUCTURE |-> v] : v \in { None, Some(<<>>) } \cup { Some(c) : c \in CodeVals } }

\* a 404 that names the partition key itself as the missing segment
KeyRejection == Http(404, SegmentMsg(<< "C0CHAR_STRUCTURE" >>), None)

DiscResponses ==
  { NetErr, Http(200, <<>>, None), KeyRejection }
    \cup { Http(s, << "Not", " ", "found" >>, js) : s \in ErrorStatuses, js \in ErrorJson }
    \cup { Http(200, <<>>, Some(Payload(sh, rows, None))) :
             sh \in { "legacy", "modern" }, rows \in SeqsUpTo(DiscRows, MaxDiscRows) }

\* the rows of page p of the partition with value code
Rows(code, p) ==
  [k \in 1..PageRows |-> [C0CHAR_STRUCTURE |-> code, page |-> p, row |-> k]]

\* the continuation token that leads to page p of partition j
Token(j, p) == << "next", j, p >>

\* What the server may answer to a request for page p of partition j: the
\* response, and tok, the continuation token the server put in it.
PageAnswers(code, j, p) ==
  { [resp |-> Http(200, <<>>, Some(Payload(sh, Rows(code, p), tok))), tok |-> tok] :
      sh \in Shapes,
      tok \in { None } \cup (IF p < MaxPages THEN { Some(Token(j, p + 1)) } ELSE {}) }

Failures ==
  { NetErr, Http(200, <<>>, None) }
    \cup { Http(s, b, None) : s \in ErrorStatuses, b \in ErrorBodies }

FailAnswers == { [resp |-> f, tok |-> None] : f \in Failures }

\* Decoded bodies _extract_results_and_next may be called with. Every key is
\* optional; a link is null (None), "" or a URL; "@odata.context" stands for
\* the keys of a body that belong to neither envelope.
Context == ("@odata.context" :> << "metadata" >>)

WithKey(base, key, vals) == { base } \cup { base @@ (key :> v) : v \in vals }

LinkValues(url) == { None, Some(<<>>), Some(<< url >>) }

LegacyBodies ==
  UNION { WithKey(b, "__next", LinkValues("legacy")) :
            b \in WithKey(("__count" :> << "1" >>), "results", { <<>>, Rows(<<65>>, 1) }) }

Payloads ==
  UNION { WithKey(b, "odata.nextLink", LinkValues("bare")) :
    b \in UNION { WithKey(c, "@odata.nextLink", LinkValues("at")) :
      c \in UNION { WithKey(e, "value", { <<>>, Rows(<<66>>, 1) }) :
        e \in WithKey(Context, "d", LegacyBodies) } } }

\* ------------------------------------------------------------------- state
VARIABLES
  pc,              \* "start", "first" (l.141-149), "page" (l.157-159), "done", "raised"
  codes,           \* run_etl: the discovered partition values
  i,               \* run_etl: 1-based position of the loop over codes
  working_fields,  \* fetch_rows_for_access_code
  all_rows,        \* fetch_rows_for_access_code
  next_link,       \* fetch_rows_for_access_code
  all_records,     \* run_etl
  returned,        \* None, or Some of what run_etl returned
  failLog,         \* the codes logged by logging.exception at l.193
  lastReq,         \* the most recent outbound request
  pauses,          \* time.sleep(REQUEST_PAUSE) calls since the last request
  started,         \* the codes fetch_rows_for_access_code was called with
  ended,           \* per finished partition: pages served and how it ended
  srvPages,        \* pages the server has served for the current partition
  srvNext,         \* token in the server's latest page of the current partition
  reqs,            \* requests issued for the current partition, by kind
  negotiated,      \* the first reduced field list a first page succeeded with
  lastStatus,      \* status code of the most recent response (0: none arrived)
  discOutcome,     \* how the server answered the discovery request
  discBody,        \* the body logged at l.84-87 for a failed discovery ("" if none)
  payload,         \* _extract_results_and_next: the decoded body it is called with
  unwrapped        \* _extract_results_and_next: None, or Some of what it returned

vars ==
  << pc, codes, i, working_fields, all_rows, next_link, all_records, returned,
     failLog, lastReq, pauses, started, ended, srvPages, srvNext, reqs,
     negotiated, lastStatus, discOutcome, discBody, payload, unwrapped >>

\* the page size of the first request is sent along again
StaleParams == ("$top" :> ToString(top_per_page))

\* l.159: the empty dict
NoParams == [p \in {} |-> <<>>]

\* An outbound request. gap is the number of pauses since the request before
\* it, part the position of the partition it is for (0: discovery), attempt
\* its number among the partition's requests of its kind.
Request(kind, url, params, gap, part, attempt) ==
  [kind |-> kind, url |-> url, params |-> params, gap |-> gap, part |-> part,
   attempt |-> attempt]

Init ==
  /\ pc = "start"
  /\ codes = <<>>
  /\ i = 0
  /\ working_fields = <<>>
  /\ all_rows = <<>>
  /\ next_link = None
  /\ all_records = <<>>
  /\ returned = None
  /\ failLog = <<>>
  /\ lastReq = Request("none", <<>>, NoParams, 0, 0, 0)
  /\ pauses = 0
  /\ started = <<>>
  /\ ended = <<>>
  /\ srvPages = 0
  /\ srvNext = None
  /\ reqs = [first |-> 0, next |-> 0]
  /\ negotiated = None
  /\ lastStatus = 0
  /\ discOutcome = "pending"
  /\ discBody = <<>>
  /\ payload = Context
  /\ unwrapped = None

\* --------------------------------------------------------------- discovery
\* the status of the response is not looked at
IgnoreStatus(resp) == IF resp.kind = "neterr" THEN None ELSE resp.json

\* _get_json_or_raise: None when it raises (a network failure, a status that
\* is not ok, a body that is not JSON), else Some of the decoded body
_get_json_or_raise(resp) ==
  IF resp.kind = "neterr" THEN None
  ELSE IF ~Ok(resp) THEN None
  ELSE resp.json

\* the truthy values in response order, neither deduplicated nor sorted
RECURSIVE UnsortedCodes(_)
UnsortedCodes(results) ==
  IF results = <<>> THEN <<>>
  ELSE LET v == Get(Head(results), "C0CHAR_STRUCTURE", None)
       IN  (IF Truthy(v) THEN << TheOne(v) >> ELSE <<>>) \o UnsortedCodes(Tail(results))

\* l.110-111: the truthy C0CHAR_STRUCTURE values, deduplicated and sorted
DistinctCodes(results) ==
  LET vals == { Get(results[k], "C0CHAR_STRUCTURE", None) : k \in 1..Len(results) }
  IN  Sorted({ TheOne(v) : v \in { w \in vals : Truthy(w) } })

fetch_distinct_access_codes(data) ==
  DistinctCodes(_extract_results_and_next(data)[1])

\* how the server's answer to the discovery request is classified
Classify(resp) ==
  IF resp.kind = "neterr" THEN "network"
  ELSE IF resp.status_code >= 400 THEN "http_error"
  ELSE IF resp.json = None THEN "undecodable"
  ELSE "ok"

\* l.84-87: the response text logging.error writes for a failed status
LoggedBody(resp) ==
  IF resp.kind = "http" /\ ~Ok(resp) THEN resp.text ELSE <<>>

\* a minimal probe of the first configured field instead of the key listing
ProbeParams ==
  ("$select" :> SELECT_FIELDS[1]) @@ ("$top" :> ToString(1))

\* l.107
CodesParams ==
  ("$select" :> <<"C0CHAR_STRUCTURE">>) @@ ("$top" :> ToString(codes_top))

\* ------------------------------------------------------------------ run_etl
\* l.196-209: what run_etl returns for the accumulated records
DropDuplicates(records) ==
  LET RECURSIVE Keep(_, _)
      Keep(done, rest) ==
        IF rest = <<>> THEN done
        ELSE IF Head(rest) \in Range(done) THEN Keep(done, Tail(rest))
        ELSE Keep(Append(done, Head(rest)), Tail(rest))
  IN  Keep(<<>>, records)

Frame(records) ==
  IF records = <<>> THEN [rows |-> <<>>, warned |-> TRUE]
  ELSE [rows |-> DropDuplicates(records), warned |-> FALSE]

\* an empty accumulator is an error
RaiseOnEmpty(records) == IF records = <<>> THEN None ELSE Some(Frame(records))

\* l.196-209: Some of the frame run_etl returns, None if it raises instead
RunResult(records) == Some(Frame(records))

\* an extraction starts with the field list the one before it ended with
KeepNegotiated(previous) == IF previous = <<>> THEN SELECT_FIELDS ELSE previous

\* l.139: the field list an extraction starts with; previous is the list the
\* extraction before it ended with
StartingFields(previous) == SELECT_FIELDS

\* l.191: the records kept when fetch_rows_for_access_code returned rows
ExtendRecords(records, rows) == records \o rows

\* a failed extraction leaves the pages it had fetched in the output
LeakPartial(records, partial) == records \o partial

\* l.192-193: the records kept when fetch_rows_for_access_code raised
RecordsOnFailure(records, partial) == records

\* a failed extraction ends the loop
AbortOnFailure(j, ok) == ok /\ j < Len(codes)

\* l.187: does the loop go on to the next code after position j ended (ok or not)?
LoopContinues(j, ok) == j < Len(codes)

\* l.139-141: entering fetch_rows_for_access_code for the code at position j
EnterPartition(j, cs) ==
  /\ pc' = "first"
  /\ i' = j
  /\ working_fields' = StartingFields(working_fields)
  /\ all_rows' = <<>>
  /\ next_link' = None
  /\ started' = Append(started, cs[j])
  /\ srvPages' = 0
  /\ srvNext' = None
  /\ reqs' = [first |-> 0, next |-> 0]
  /\ returned' = None

\* l.196-209: the loop is over, run_etl returns
ReturnFrame(records) ==
  /\ pc' = IF RunResult(records) = None THEN "raised" ELSE "done"
  /\ returned' = RunResult(records)
  /\ UNCHANGED << i, working_fields, next_link, started, srvNext >>

\* l.191-194 and on: fetch_rows_for_access_code returned rows (ok) or raised;
\* served is the number of pages the server had served for the partition, rq
\* the requests issued for it and ans the server's last answer
EndPartition(ok, rows, served, rq, ans) ==
  LET records == IF ok THEN ExtendRecords(all_records, rows)
                 ELSE RecordsOnFailure(all_records, rows)
  IN  /\ all_records' = records
      /\ failLog' = IF ok THEN failLog ELSE Append(failLog, codes[i])
      /\ ended' = Append(ended, [failed |-> ans \in FailAnswers, pages |-> served])
      /\ pauses' = 1
      /\ IF LoopContinues(i, ok)
         THEN EnterPartition(i + 1, codes)
         ELSE /\ ReturnFrame(records)
              /\ all_rows' = rows
              /\ srvPages' = served
              /\ reqs' = rq
      /\ UNCHANGED << codes, discOutcome, discBody >>

\* l.184-185 (and on to the first extraction, or to the return, l.196-198)
DiscoverWith(resp) ==
  LET data == _get_json_or_raise(resp)
  IN  /\ pc = "start"
      /\ lastReq' = Request("codes", _entity_url(SAP_CODES_QUERY), CodesParams, pauses, 0, 1)
      /\ lastStatus' = resp.status_code
      /\ pauses' = 0
      /\ discOutcome' = Classify(resp)
      /\ discBody' = LoggedBody(resp)
      /\ IF data = None
         THEN /\ pc' = "raised"
              /\ UNCHANGED << codes, i, working_fields, all_rows, next_link,
                              returned, started, srvPages, srvNext, reqs >>
         ELSE LET cs == fetch_distinct_access_codes(TheOne(data))
              IN  /\ codes' = cs
                  /\ IF cs # <<>>
                     THEN EnterPartition(1, cs)
                     ELSE /\ ReturnFrame(<<>>)
                          /\ UNCHANGED << all_rows, srvPages, reqs >>
      /\ UNCHANGED << all_records, failLog, ended, negotiated >>

Discover ==
  /\ \E resp \in DiscResponses : DiscoverWith(resp)
  /\ UNCHANGED << payload, unwrapped >>

\* ------------------------------------------------- fetch_rows_for_access_code
\* l.138, l.146
FilterExpr(code) ==
  << "C0CHAR_STRUCTURE eq " >> \o << QUOTE >> \o EscapeQuotes(code) \o << QUOTE >>

\* l.142-147
FirstParams(fields, code) ==
  ("$select" :> Join(fields)) @@ ("$top" :> ToString(top_per_page))
    @@ ("$filter" :> FilterExpr(code))

\* every failed status is taken for a field rejection
AnyErrorStatus(resp) == TRUE

\* l.167
IsNotFound(resp) == resp.status_code = 404

\* the last field left is dropped too
CanDropLast(missing, fields) ==
  /\ missing # None
  /\ TheOne(missing) \in Range(fields)

\* l.169
CanDrop(missing, fields) ==
  /\ missing # None
  /\ TheOne(missing) \in Range(fields)
  /\ Len(fields) > 1

\* the last field of the list is dropped, whichever was rejected
DropLast(fields, missing) == SubSeq(fields, 1, Len(fields) - 1)

\* the rejected field stays in the list
KeepField(fields, missing) == fields

\* l.170
DropField(fields, missing) == RemoveFirst(fields, TheOne(missing))

\* the paging loop gives up after two pages
FollowLinkCapped(link, fetched) == Truthy(link) /\ fetched < 2

\* l.157 `while next_link:` the only condition of the paging loop; fetched
\* is the number of pages fetched so far, which the loop does not look at
FollowLink(link, fetched) == Truthy(link)

\* l.141-176: one pass of the negotiation loop
FirstPageWith(ans) ==
  /\ pc = "first"
  /\   LET resp == ans.resp
           rq == [reqs EXCEPT !.first = @ + 1]
       IN  /\ lastStatus' = resp.status_code
           /\ lastReq' = Request("first", _entity_url(SAP_MAIN_QUERY),
                                 FirstParams(working_fields, codes[i]), pauses,
                                 i, rq.first)
           /\ negotiated' =
                IF /\ negotiated = None
                   /\ ans \notin FailAnswers
                   /\ working_fields # SELECT_FIELDS
                THEN Some(working_fields)
                ELSE negotiated
           /\ IF resp.kind = "neterr"
              THEN EndPartition(FALSE, <<>>, 0, rq, ans)
              ELSE IF Ok(resp)
              THEN IF resp.json = None
                   THEN EndPartition(FALSE, <<>>, 0, rq, ans)
                   ELSE LET ex == _extract_results_and_next(TheOne(resp.json))
                        IN  IF FollowLink(ex[2], 1)
                            THEN /\ pc' = "page"
                                 /\ all_rows' = ex[1]
                                 /\ next_link' = ex[2]
                                 /\ srvPages' = 1
                                 /\ srvNext' = ans.tok
                                 /\ reqs' = rq
                                 /\ pauses' = 0
                                 /\ UNCHANGED << codes, i, working_fields, all_records,
                                                 returned, failLog, started, ended,
                                                 discOutcome, discBody >>
                            ELSE EndPartition(TRUE, ex[1], 1, rq, ans)
              ELSE LET missing == _extract_missing_segment(resp.text)
                   IN  IF IsNotFound(resp) /\ CanDrop(missing, working_fields)
                       THEN /\ working_fields' = DropField(working_fields, missing)
                            /\ reqs' = rq
                            /\ pauses' = 0
                            /\ UNCHANGED << pc, codes, i, all_rows, next_link,
                                            all_records, returned, failLog, started,
                                            ended, srvPages, srvNext, discOutcome, discBody >>
                       ELSE EndPartition(FALSE, <<>>, 0, rq, ans)

FirstPage ==
  /\ pc = "first"
  /\ \E ans \in PageAnswers(codes[i], i, 1) \cup FailAnswers : FirstPageWith(ans)
  /\ UNCHANGED << payload, unwrapped >>

\* the page a continuation URL leads to on the server
ServedBy(url) ==
  IF Len(url) = 3 /\ url[1] = "next"
  THEN PageAnswers(codes[url[2]], url[2], url[3])
  ELSE {}

\* the continuation request goes to the URL of the request before it again
RepeatUrl(link, previous) == IF Len(previous) = 3 THEN previous ELSE TheOne(link)

\* l.157: the URL the next continuation request goes to
NextUrl(link, previous) == TheOne(link)

\* l.157-164: one pass of the paging loop
NextPageWith(ans) ==
  /\ pc = "page"
  /\       LET url == NextUrl(next_link, lastReq.url)
               data == _get_json_or_raise(ans.resp)
               rq == [reqs EXCEPT !.next = @ + 1]
           IN  /\ lastStatus' = ans.resp.status_code
               /\ lastReq' = Request("next", url, NoParams, pauses + 1, i, rq.next)
               /\ UNCHANGED negotiated
               /\ IF data = None
                  THEN EndPartition(FALSE, all_rows, srvPages, rq, ans)
                  ELSE LET ex == _extract_results_and_next(TheOne(data))
                           rows == all_rows \o ex[1]
                       IN  IF FollowLink(ex[2], rq.next + 1)
                           THEN /\ all_rows' = rows
                                /\ next_link' = ex[2]
                                /\ srvPages' = srvPages + 1
                                /\ srvNext' = ans.tok
                                /\ reqs' = rq
                                /\ pauses' = 0
                                /\ UNCHANGED << pc, codes, i, working_fields,
                                                all_records, returned, failLog,
                                                started, ended, discOutcome, discBody >>
                           ELSE EndPartition(TRUE, rows, srvPages + 1, rq, ans)

\* a 404 on a continuation page that names a droppable field is negotiated
\* like one on the first page, and the same link is requested again
NextPageNegotiating ==
  /\ pc = "page"
  /\ \E ans \in ServedBy(NextUrl(next_link, lastReq.url)) \cup FailAnswers :
       LET missing == _extract_missing_segment(ans.resp.text)
       IN  IF /\ ans.resp.kind = "http"
              /\ IsNotFound(ans.resp)
              /\ CanDrop(missing, working_fields)
           THEN /\ working_fields' = DropField(working_fields, missing)
                /\ lastReq' = Request("next", NextUrl(next_link, lastReq.url), NoParams,
                                      pauses + 1, i, reqs.next + 1)
                /\ lastStatus' = ans.resp.status_code
                /\ reqs' = [reqs EXCEPT !.next = @ + 1]
                /\ pauses' = 0
                /\ UNCHANGED << pc, codes, i, all_rows, next_link, all_records,
                                returned, failLog, started, ended, srvPages, srvNext,
                                negotiated, discOutcome, discBody >>
           ELSE NextPageWith(ans)
  /\ UNCHANGED << payload, unwrapped >>

NextPage ==
  /\ pc = "page"
  /\ \E ans \in ServedBy(NextUrl(next_link, lastReq.url)) \cup FailAnswers :
       NextPageWith(ans)
  /\ UNCHANGED << payload, unwrapped >>

Next == Discover \/ FirstPage \/ NextPage

Spec == Init /\ [][Next]_vars

\* Every HTTP call returns (SESSION.get has timeout=60, l.79), so a run that
\* can take its next step takes it.
FairSpec == Spec /\ WF_vars(Next)

\* ------------------------------------------- _extract_results_and_next alone
\* l.91-97: one call of the function with any decoded body
InitUnwrap ==
  /\ payload \in Payloads
  /\ unwrapped = None
  /\ pc = "start"
  /\ codes = <<>>
  /\ i = 0
  /\ working_fields = <<>>
  /\ all_rows = <<>>
  /\ next_link = None
  /\ all_records = <<>>
  /\ returned = None
  /\ failLog = <<>>
  /\ lastReq = Request("none", <<>>, NoParams, 0, 0, 0)
  /\ pauses = 0
  /\ started = <<>>
  /\ ended = <<>>
  /\ srvPages = 0
  /\ srvNext = None
  /\ reqs = [first |-> 0, next |-> 0]
  /\ negotiated = None
  /\ lastStatus = 0
  /\ discOutcome = "pending"
  /\ discBody = <<>>

Unwrap ==
  /\ unwrapped = None
  /\ unwrapped' = Some(_extract_results_and_next(payload))
  /\ UNCHANGED << pc, codes, i, working_fields, all_rows, next_link, all_records,
                  returned, failLog, lastReq, pauses, started, ended, srvPages,
                  srvNext, reqs, negotiated, lastStatus, discOutcome, discBody,
                  payload >>

NextUnwrap == Unwrap

SpecUnwrap == InitUnwrap /\ [][NextUnwrap]_vars

\* ================================================================== claims
\* the rows the server holds on pages 1..n of the partition with value code
RECURSIVE ServedRows(_, _)
ServedRows(code, n) ==
  IF n = 0 THEN <<>> ELSE ServedRows(code, n - 1) \o Rows(code, n)

\* the rows of the first k finished partitions that ended without a failure
RECURSIVE ExpectedRecords(_)
ExpectedRecords(k) ==
  IF k = 0 THEN <<>>
  ELSE ExpectedRecords(k - 1)
         \o (IF ended[k].failed THEN <<>> ELSE ServedRows(codes[k], ended[k].pages))

\* the values of the first k finished partitions that ended with a failure
RECURSIVE FailedCodes(_)
FailedCodes(k) ==
  IF k = 0 THEN <<>>
  ELSE FailedCodes(k - 1) \o (IF ended[k].failed THEN << codes[k] >> ELSE <<>>)

\* the records of the run's accumulator that belong to partition j
RecordsOf(j) ==
  LET Mine(r) == r.C0CHAR_STRUCTURE = codes[j]
  IN  SelectSeq(all_records, Mine)

\* C1: whichever partitions fail, the run attempts every discovered partition,
\* returns the records of exactly the partitions that did not fail, and logs
\* one failure per failed partition.
C1_FailedPartitionsIsolated ==
  /\ all_records = ExpectedRecords(Len(ended))
  /\ failLog = FailedCodes(Len(ended))
  /\ pc = "done" =>
        /\ started = codes
        /\ Len(ended) = Len(codes)
        /\ TheOne(returned).rows = ExpectedRecords(Len(codes))

C1_Witness ==
  /\ pc = "done"
  /\ Len(codes) = 3
  /\ ~ended[1].failed /\ ended[2].failed /\ ~ended[3].failed
  /\ failLog = << codes[2] >>

\* C2: in every state the accumulated records hold, for each partition, all
\* the pages the server served for it or none of them; a partition that
\* failed after its first page leaves nothing behind.
C2_AllPagesOrNone ==
  \A j \in 1..Len(codes) :
    RecordsOf(j) = IF j <= Len(ended) /\ ~ended[j].failed
                   THEN ServedRows(codes[j], ended[j].pages)
                   ELSE <<>>

C2_Witness ==
  \E j \in 1..Len(ended) :
    /\ ended[j].failed
    /\ ended[j].pages >= 2
    /\ \E h \in 1..Len(ended) : ~ended[h].failed /\ ended[h].pages >= 2

\* the field list a $select value was joined from
Selected(select) ==
  LET NotComma(tok) == tok # ","
      names == SelectSeq(select, NotComma)
  IN  [k \in 1..Len(names) |-> << names[k] >>]

\* C3 as stated: once a first page has succeeded with a reduced field list,
\* every later first-page request of the run carries exactly that list.
C3_ReducedSetReusedAcrossPartitions ==
  (negotiated # None /\ lastReq.kind = "first")
    => lastReq.params["$select"] = Join(TheOne(negotiated))

\* C3 amended: a reduced field list holds for its own partition only. Once a
\* first page has been served no further first-page request is issued for
\* that partition, and the first first-page request of every partition
\* carries the full configured field list again.
C3_NegotiationRestartsPerPartition ==
  /\ (lastReq.kind = "first" /\ lastReq.attempt = 1)
        => Selected(lastReq.params["$select"]) = SELECT_FIELDS
  /\ (pc = "first" => srvPages = 0)

C3_Witness ==
  /\ negotiated # None
  /\ lastReq.kind = "first"
  /\ lastReq.attempt = 1
  /\ lastReq.part >= 2
  /\ ~ended[1].failed

NoDuplicates(s) == \A a, b \in 1..Len(s) : s[a] = s[b] => a = b

\* C4: every retry of the negotiation loop removes exactly one field that
\* is still in the working list (so no field is removed twice), and a
\* partition sees at most |fields| first-page requests.
C4_NegotiationBounded ==
  /\ [](/\ NoDuplicates(working_fields)
        /\ Range(working_fields) \subseteq Range(SELECT_FIELDS)
        /\ reqs.first <= Len(SELECT_FIELDS)
        /\ (pc = "first" => reqs.first = Len(SELECT_FIELDS) - Len(working_fields)))
  /\ [][(pc = "first" /\ pc' = "first" /\ i' = i)
          => /\ Len(working_fields') = Len(working_fields) - 1
             /\ \E f \in Range(working_fields) :
                  Range(working_fields') = Range(working_fields) \ {f}]_vars

C4_Witness ==
  /\ pc = "done"
  /\ reqs.first = Len(SELECT_FIELDS)
  /\ Len(working_fields) = 1

\* C5: a partition served as a chain of n pages costs one request per page
\* (besides the rejected first-page attempts), every continuation request
\* goes to the token of the response just before it, and the rows are the
\* pages' rows in request order.
C5_PagesFollowedInOrder ==
  /\ []((pc = "page" \/ (pc = "done" /\ codes # <<>> /\ ~ended[Len(codes)].failed))
          => /\ reqs.next = srvPages - 1
             /\ reqs.first = 1 + Len(SELECT_FIELDS) - Len(working_fields)
             /\ all_rows = ServedRows(codes[i], srvPages))
  /\ [](pc = "page" => next_link = srvNext /\ srvNext = Some(Token(i, srvPages + 1)))
  /\ [][pc = "page"
          => /\ lastReq'.kind = "next"
             /\ lastReq'.part = i
             /\ lastReq'.url = TheOne(srvNext)]_vars

C5_Witness ==
  /\ pc = "done"
  /\ codes # <<>>
  /\ ~ended[Len(ended)].failed
  /\ srvPages = 3
  /\ reqs = [first |-> 1, next |-> 2]
  /\ lastReq.url = Token(i, 3)

\* C6: every extraction request is preceded by at least one pause since the
\* request before it.
C6_PauseBetweenRequests ==
  lastReq.kind \in { "first", "next" } => lastReq.gap >= 1

\* the non-empty, non-null C0CHAR_STRUCTURE values among the rows
NonEmptyValues(rows) ==
  { TheOne(rows[k].C0CHAR_STRUCTURE) :
      k \in { h \in 1..Len(rows) :
                /\ "C0CHAR_STRUCTURE" \in DOMAIN rows[h]
                /\ rows[h].C0CHAR_STRUCTURE # None
                /\ rows[h].C0CHAR_STRUCTURE # Some(<<>>) } }

StrictlyAscending(s) == \A k \in 1..(Len(s) - 1) : StrLess(s[k], s[k + 1])

\* C7: the run is driven by the distinct non-empty, non-null values of the
\* discovery response, and extraction starts for each exactly once, in
\* strictly ascending order, whatever order and multiplicity they came in.
C7_PartitionsSortedDistinct ==
  /\ [][pc = "start" =>
          \A sh \in { "legacy", "modern" }, rows \in SeqsUpTo(DiscRows, MaxDiscRows) :
            DiscoverWith(Http(200, <<>>, Some(Payload(sh, rows, None))))
              => pc' # "raised" /\ Range(codes') = NonEmptyValues(rows)]_vars
  /\ [](/\ StrictlyAscending(codes)
        /\ started = SubSeq(codes, 1, Len(started))
        /\ (pc \in { "first", "page" } => Len(started) = i)
        /\ (pc = "done" => started = codes))

C7_Witness ==
  /\ pc = "done"
  /\ Len(codes) = 3
  /\ started = codes

\* C8: a discovery that succeeds with no partition value leads to no
\* extraction request and to a normal return of the explicit empty result.
C8_ZeroPartitionsEmptyResult ==
  (discOutcome = "ok" /\ codes = <<>>)
    => /\ pc = "done"
       /\ returned = Some([rows |-> <<>>, warned |-> TRUE])
       /\ lastReq.kind = "codes"
       /\ started = <<>>
       /\ reqs = [first |-> 0, next |-> 0]

C8_Witness == discOutcome = "ok" /\ codes = <<>> /\ pc = "done"

\* C9: a failed discovery request (status not ok, network failure, body not
\* JSON) fails the run: nothing is returned and no extraction is requested.
C9_DiscoveryFailureFatal ==
  discOutcome \in { "network", "http_error", "undecodable" }
    => /\ pc = "raised"
       /\ returned = None
       /\ codes = <<>>
       /\ started = <<>>
       /\ lastReq.kind = "codes"

C9_Witness == discOutcome = "http_error" /\ pc = "raised" /\ lastStatus = 500

\* a 404 whose body names no identifiable field, a field that is not in
\* fields, or the only field of fields
Exhausted(resp, fields) ==
  /\ resp.kind = "http"
  /\ resp.status_code = 404
  /\ \/ \A f \in Range(SELECT_FIELDS) \cup { <<"NO_SUCH_FIELD">> } : resp.text # SegmentMsg(f)
     \/ \E f \in Range(SELECT_FIELDS) \cup { <<"NO_SUCH_FIELD">> } :
          /\ resp.text = SegmentMsg(f)
          /\ (f \notin Range(fields) \/ Len(fields) = 1)

\* C10: a first-page 404 that negotiation cannot act on ends the partition
\* as failed at once, with no further request for it, and the run goes on
\* with the next partition (or returns after the last one).
C10_ExhaustedFailsPartitionOnly ==
  /\ [][pc = "first" =>
          \A ans \in FailAnswers :
            (FirstPageWith(ans) /\ Exhausted(ans.resp, working_fields))
              => /\ ended' = Append(ended, [failed |-> TRUE, pages |-> 0])
                 /\ failLog' = Append(failLog, codes[i])
                 /\ all_records' = all_records
                 /\ IF i < Len(codes)
                    THEN pc' = "first" /\ i' = i + 1 /\ started' = Append(started, codes[i + 1])
                    ELSE pc' = "done" /\ returned' # None]_vars
  /\ [](lastReq.kind \in { "first", "next" } => lastReq.part >= Len(ended))

C10_Witness ==
  /\ lastReq.kind = "first"
  /\ lastStatus = 404
  /\ Len(ended) = lastReq.part
  /\ ended[lastReq.part].failed
  /\ pc = "first"
  /\ i = lastReq.part + 1

\* a failure that is no field rejection: a network failure, a failed status
\* other than 404, or a 404 whose body carries no segment message
NonFieldFailure(resp) ==
  \/ resp.kind = "neterr"
  \/ resp.kind = "http" /\ resp.status_code >= 400 /\ resp.status_code # 404
  \/ /\ resp.kind = "http"
     /\ resp.status_code = 404
     /\ \A f \in Range(SELECT_FIELDS) \cup { <<"NO_SUCH_FIELD">> } : resp.text # SegmentMsg(f)

\* the step ends the current partition as failed after served pages, keeps
\* the accumulated records and goes on with the next partition, if any
PartitionLost(served) ==
  /\ ended' = Append(ended, [failed |-> TRUE, pages |-> served])
  /\ failLog' = Append(failLog, codes[i])
  /\ all_records' = all_records
  /\ IF i < Len(codes)
     THEN pc' = "first" /\ i' = i + 1 /\ lastReq'.part = i
     ELSE pc' = "done" /\ returned' # None

\* C11: a failure that is no field rejection, on the first page or on a
\* continuation page, is never retried or negotiated: the partition ends as
\* failed with that request, and only that partition is lost.
C11_NonFieldFailureNeverRetried ==
  [][/\ pc = "first" =>
          \A ans \in FailAnswers :
            (FirstPageWith(ans) /\ NonFieldFailure(ans.resp)) => PartitionLost(0)
     /\ pc = "page" =>
          \A ans \in FailAnswers :
            (NextPageWith(ans) /\ NonFieldFailure(ans.resp)) => PartitionLost(srvPages)]_vars

C11_Witness ==
  /\ lastReq.kind = "next"
  /\ lastStatus = 500
  /\ Len(ended) = lastReq.part
  /\ ended[lastReq.part].failed
  /\ ended[lastReq.part].pages >= 1
  /\ pc = "first"
  /\ all_records # <<>>

\* C12 as stated: the key is found by probing candidates, so a rejection
\* that names the probed field does not end the run with the HTTP error of
\* that request: either the next candidate is probed or, with none left,
\* the run fails with NoPartitionKeyFound.
C12_RejectedCandidateSkipped ==
  [][pc = "start" =>
       (DiscoverWith(KeyRejection)
          => (pc' = "start" \/ discOutcome' = "NoPartitionKeyFound"))]_vars

\* C12 amended: the key is the fixed field C0CHAR_STRUCTURE and nothing is
\* probed. The run's first request is the one value listing that selects
\* this field, no second one follows, every first-page request filters on
\* this field, and a 404 naming the field as missing ends the run at once
\* with that request's HTTP error like any other failed status.
C12_FixedKeyNoProbing ==
  /\ [][pc = "start" =>
          \A resp \in DiscResponses :
            DiscoverWith(resp)
              => /\ lastReq'.kind = "codes"
                 /\ lastReq'.params =
                      ("$select" :> << "C0CHAR_STRUCTURE" >>) @@ ("$top" :> "10000")
                 /\ pc' # "start"
                 /\ resp = KeyRejection
                      => /\ pc' = "raised"
                         /\ discOutcome' = "http_error"
                         /\ returned' = None
                         /\ started' = <<>>]_vars
  /\ [][lastReq.kind # "none" => lastReq'.kind # "codes"]_vars
  /\ [](lastReq.kind = "first"
          => SubSeq(lastReq.params["$filter"], 1, 1) = << "C0CHAR_STRUCTURE eq " >>)

C12_Witness ==
  /\ pc = "raised"
  /\ lastReq.kind = "codes"
  /\ lastStatus = 404
  /\ discBody = SegmentMsg(<< "C0CHAR_STRUCTURE" >>)

\* C13: a body that has the key "d" is unwrapped to the results list of "d"
\* (empty when "d" has none) and the "__next" of "d" (none when "d" has
\* none), whichever of "value", "@odata.nextLink" and "odata.nextLink" the
\* body has besides.
C13_LegacyTakesPrecedence ==
  (unwrapped # None /\ "d" \in DOMAIN payload)
    => /\ TheOne(unwrapped)[1] =
            (IF "results" \in DOMAIN payload["d"] THEN payload["d"]["results"] ELSE <<>>)
       /\ TheOne(unwrapped)[2] =
            (IF "__next" \in DOMAIN payload["d"] THEN payload["d"]["__next"] ELSE None)

C13_Witness ==
  /\ unwrapped # None
  /\ { "d", "value", "@odata.nextLink", "odata.nextLink" } \subseteq DOMAIN payload
  /\ payload["value"] # <<>>
  /\ payload["@odata.nextLink"] = Some(<< "at" >>)
  /\ DOMAIN payload["d"] = { "__count" }
  /\ unwrapped = Some(<< <<>>, None >>)

\* the "value" list of a body, empty when the body has none
ValueOf(body) == IF "value" \in DOMAIN body THEN body["value"] ELSE <<>>

BothLinks(body) == { "@odata.nextLink", "odata.nextLink" } \subseteq DOMAIN body

\* a link as continuation token: null and "" both mean that there is none
AsToken(link) == IF link \in { None, Some(<<>>) } THEN None ELSE link

\* C14 as stated: a body without "d" is unwrapped to its "value" list and,
\* when it has both link keys, to the value of "@odata.nextLink"; a body
\* with no key of either envelope gives no rows and no link.
C14_AtLinkWinsWhenBothPresent ==
  (unwrapped # None /\ "d" \notin DOMAIN payload)
    => /\ TheOne(unwrapped)[1] = ValueOf(payload)
       /\ BothLinks(payload) =>
            AsToken(TheOne(unwrapped)[2]) = AsToken(payload["@odata.nextLink"])
       /\ payload = Context => unwrapped = Some(<< <<>>, None >>)

\* C14 amended: as above, but with both link keys "@odata.nextLink" is the
\* token only when it is a non-empty string; when it is null or "" the
\* token is the value of "odata.nextLink".
C14_AtLinkWinsWhenNonEmpty ==
  (unwrapped # None /\ "d" \notin DOMAIN payload)
    => /\ TheOne(unwrapped)[1] = ValueOf(payload)
       /\ BothLinks(payload) =>
            AsToken(TheOne(unwrapped)[2]) =
              (IF AsToken(payload["@odata.nextLink"]) # None
               THEN payload["@odata.nextLink"]
               ELSE AsToken(payload["odata.nextLink"]))
       /\ payload = Context => unwrapped = Some(<< <<>>, None >>)

C14_Witness ==
  /\ unwrapped # None
  /\ "d" \notin DOMAIN payload
  /\ BothLinks(payload)
  /\ "value" \in DOMAIN payload
  /\ payload["@odata.nextLink"] = Some(<< "at" >>)
  /\ payload["odata.nextLink"] = Some(<< "bare" >>)
  /\ payload["value"] # <<>>
  /\ unwrapped = Some(<< payload["value"], Some(<< "at" >>) >>)

\* every quote of the literal is one of a pair of adjacent quotes
RECURSIVE QuotesPaired(_)
QuotesPaired(lit) ==
  IF lit = <<>> THEN TRUE
  ELSE IF Head(lit) # QUOTE THEN QuotesPaired(Tail(lit))
  ELSE Len(lit) >= 2 /\ lit[2] = QUOTE /\ QuotesPaired(SubSeq(lit, 3, Len(lit)))

\* the string an OData literal stands for: each pair of quotes is one quote
RECURSIVE LiteralValue(_)
LiteralValue(lit) ==
  IF lit = <<>> THEN <<>>
  ELSE IF Head(lit) = QUOTE /\ Len(lit) >= 2 /\ lit[2] = QUOTE
  THEN << QUOTE >> \o LiteralValue(SubSeq(lit, 3, Len(lit)))
  ELSE << Head(lit) >> \o LiteralValue(Tail(lit))

QuoteCount(str) == Cardinality({ k \in 1..Len(str) : str[k] = QUOTE })

\* C15: the $filter of every first-page request is C0CHAR_STRUCTURE eq '<v>'
\* where <v> has no unpaired quote, stands for exactly the partition value
\* and is longer than it by one character per quote of the value.
C15_FilterQuotesDoubled ==
  lastReq.kind = "first" =>
    LET filter == lastReq.params["$filter"]
        lit == SubSeq(filter, 3, Len(filter) - 1)
        code == codes[lastReq.part]
    IN  /\ Len(filter) >= 3
        /\ filter[1] = "C0CHAR_STRUCTURE eq "
        /\ filter[2] = QUOTE
        /\ filter[Len(filter)] = QUOTE
        /\ QuotesPaired(lit)
        /\ LiteralValue(lit) = code
        /\ Len(lit) = Len(code) + QuoteCount(code)

C15_Witness ==
  /\ lastReq.kind = "first"
  /\ codes[lastReq.part] = << QUOTE, 65, QUOTE, QUOTE >>
  /\ lastReq.params["$filter"] =
       << "C0CHAR_STRUCTURE eq ", QUOTE,
          QUOTE, QUOTE, 65, QUOTE, QUOTE, QUOTE, QUOTE, QUOTE >>

\* the list without the field, the others in their order
Without(fields, field) ==
  LET Other(x) == x # field
  IN  SelectSeq(fields, Other)

\* the server's 404 that names the field as the missing segment
Rejection(field) == [resp |-> Http(404, SegmentMsg(field), None), tok |-> None]

\* C16: a first-page 404 naming a field of the working list that is not its
\* only member keeps the extraction on the first page of the same partition
\* with that field removed and the others in their order, and the request
\* that follows is a first-page request for the same partition with the
\* same $filter and $top whose $select is that list.
C16_RetryWithoutRejectedField ==
  /\ [][pc = "first" =>
          \A f \in Range(working_fields) :
            (Len(working_fields) > 1 /\ FirstPageWith(Rejection(f)))
              => /\ pc' = "first"
                 /\ i' = i
                 /\ working_fields' = Without(working_fields, f)
                 /\ ended' = ended
                 /\ srvPages' = 0]_vars
  /\ [][pc = "first" =>
          /\ lastReq'.kind = "first"
          /\ lastReq'.part = i
          /\ Selected(lastReq'.params["$select"]) = working_fields
          /\ (lastReq.kind = "first" /\ lastReq.part = i)
               => /\ lastReq'.params["$filter"] = lastReq.params["$filter"]
                  /\ lastReq'.params["$top"] = lastReq.params["$top"]
                  /\ lastReq'.attempt = lastReq.attempt + 1]_vars

C16_Witness ==
  /\ lastReq.kind = "first"
  /\ lastReq.attempt = 2
  /\ lastStatus = 200
  /\ Len(SELECT_FIELDS) >= 3
  /\ Selected(lastReq.params["$select"]) = Without(SELECT_FIELDS, SELECT_FIELDS[2])

\* C17: once a first page has been served, the working field list of the
\* partition stays as that request had it for as long as the extraction
\* is on that partition, and a 404 naming a field of the list on a
\* continuation page drops nothing and ends the partition as failed.
C17_FieldsFrozenAfterFirstPage ==
  /\ [][pc' = "page" => working_fields' = working_fields]_vars
  /\ [](pc = "page" =>
          /\ lastReq.part = i
          /\ lastReq.kind = "first" =>
               Selected(lastReq.params["$select"]) = working_fields)
  /\ [][pc = "page" =>
          \A f \in Range(working_fields) :
            NextPageWith(Rejection(f)) => PartitionLost(srvPages)]_vars

C17_Witness ==
  /\ pc = "done"
  /\ lastReq.kind = "next"
  /\ lastStatus = 404
  /\ ended[lastReq.part].failed
  /\ ended[lastReq.part].pages >= 1
  /\ reqs.first = 2
  /\ Len(working_fields) = Len(SELECT_FIELDS) - 1

\* C18: every continuation request goes to exactly the token the server put
\* in the page before it and has no query parameter at all, while every
\* first-page request has exactly $select, $top and $filter.
C18_ContinuationCarriesNoParams ==
  /\ [](lastReq.kind = "next" =>
          /\ DOMAIN lastReq.params = {}
          /\ lastReq.url = Token(lastReq.part, lastReq.attempt + 1))
  /\ [](lastReq.kind = "first" =>
          /\ DOMAIN lastReq.params = { "$select", "$top", "$filter" }
          /\ lastReq.params["$top"] = "5000"
          /\ lastReq.url = _entity_url(SAP_MAIN_QUERY))
  /\ [][pc = "page" =>
          /\ srvNext # None
          /\ lastReq'.kind = "next"
          /\ lastReq'.url = TheOne(srvNext)
          /\ lastReq'.params = << >>]_vars

C18_Witness ==
  /\ lastReq.kind = "next"
  /\ lastReq.attempt = 2
  /\ lastReq.url = Token(lastReq.part, 3)
  /\ lastReq.part = 2
  /\ lastStatus = 200
  /\ DOMAIN lastReq.params = {}

\* at least one partition was discovered and every extraction has failed
AllPartitionsFailed ==
  /\ codes # <<>>
  /\ Len(ended) = Len(codes)
  /\ \A j \in 1..Len(ended) : ended[j].failed

\* C19: when at least one partition was discovered and the extraction of
\* every one of them failed, the run ends with a failure and returns no
\* result, instead of returning the empty result.
C19_AllPartitionsFailedHaltsRun ==
  AllPartitionsFailed => (pc = "raised" /\ returned = None)

Terminated == pc \in { "done", "raised" }

\* the step stays in the paging loop of the current partition and the next
\* request goes to the token of answer ans
KeepsPaging(ans) ==
  /\ pc' = "page"
  /\ i' = i
  /\ next_link' = ans.tok
  /\ ended' = ended

\* C20: with every call returning and every continuation chain finite, the
\* run always terminates, whatever mix of pages, field rejections and
\* failures the server answers with; and the paging loop ends only on a
\* page without a token: a page that carries one is always followed by a
\* request to it, however many pages were fetched before.
C20_TerminatesOnFiniteChains ==
  /\ <>Terminated
  /\ [][/\ pc = "first" =>
            \A ans \in PageAnswers(codes[i], i, 1) :
              (ans.tok # None /\ FirstPageWith(ans)) => KeepsPaging(ans)
        /\ pc = "page" =>
            \A ans \in ServedBy(TheOne(next_link)) :
              (ans.tok # None /\ NextPageWith(ans)) => KeepsPaging(ans)]_vars
  /\ [](pc = "page" => ENABLED NextPage)

C20_Witness ==
  /\ pc = "done"
  /\ Len(codes) = 3
  /\ negotiated # None
  /\ \E j \in 1..3 : ended[j].failed
  /\ \E j \in 1..3 : ~ended[j].failed /\ ended[j].pages = MaxPages
  /\ srvPages = MaxPages

=============================================================================
